---- MODULE Spec2Model ----
(***************************************************************************)
(* Model of cola/cmds.py: the command objects of git-cola, the undo stack  *)
(* of the command factory they are dispatched through, and the broadcasts  *)
(* and collaborator calls each do() makes.                                 *)
(*                                                                         *)
(* Python strings that are only stored and compared are sequences of       *)
(* tokens ('' is <<>>, concatenation is \o).  Paths are sequences of       *)
(* character codes, so that sorting, dirname and basename are computed.    *)
(***************************************************************************)
EXTENDS Integers, Sequences, FiniteSets, TLC

VARIABLES
    model,       \* cola.model(): diff_text, filename, mode, head, commitmsg, directory
    undostack,   \* _factory.undostack: the executed undoable command objects
    merge_head,  \* whether .git/MERGE_HEAD exists
    headmsg,     \* message of the most recent commit (model.prev_commitmsg())
    trace,       \* broadcasts, prompts and collaborator calls of the last do()/undo()
    snap,        \* the model as it was when the last command was constructed
    last,        \* what the last step was
    environ,     \* os.environ, the variables that are set
    selfile,     \* selection.filename(): the selected file, '' when there is none
    tool,        \* the options of the tool the last RunConfigAction ran
    ret          \* what the last RunConfigAction.do() returned

toolvars == <<environ, selfile, tool, ret>>

vars == <<model, undostack, merge_head, headmsg, trace, snap, last, toolvars>>

----------------------------------------------------------------------------
(* Bounds *)

MaxUndo == 2          \* Spec, SpecViews: undoable commands are dispatched up to this stack depth
MaxAmend == 3         \* SpecAmend: the same, for its fewer commands
MaxPatches == 2       \* SpecPatches: patches in one batch
MaxPaths == 2         \* SpecIndex, SpecGit: paths in one list
MaxRetries == 1       \* SpecRun, SpecPrompt: empty revisions the user submits before a final answer

----------------------------------------------------------------------------
(* Values *)

None == <<-1>>        \* Python None where a path or filename is expected

Slash == 47           \* ord('/')

\* "/a/m" and "/b/t" are files, "/a/x" does not exist
PathAM == <<47, 97, 47, 109>>
PathBT == <<47, 98, 47, 116>>
PathAX == <<47, 97, 47, 120>>

mode_none == "none"
mode_worktree == "worktree"
mode_index == "index"
mode_amend == "amend"
mode_untracked == "untracked"

\* commit messages the user types, commits carry and files hold
Msgs == {<<"m1">>, <<"m2">>}

\* texts a diff or a caller can produce
Texts == {<<>>, <<"d1">>}

Statuses == {0, 1, 128}

\* one broadcast, prompt or collaborator call: ev is the signal or the
\* function, status the exit status it carries or returns (-1 when it has
\* none), arg what else it is given
Ev(ev, status, arg) == [ev |-> ev, status |-> status, arg |-> arg]

----------------------------------------------------------------------------
(* BaseCommand and Command *)

BaseCommand_init == [undoable |-> FALSE]

\* Command.__init__; the attributes below the new_* ones are those that
\* subclass constructors assign, present here with a placeholder so that all
\* command objects have one shape
Command_init(m) ==
    BaseCommand_init @@
    [name |-> "Command",
     old_diff_text |-> m.diff_text,
     old_filename |-> m.filename,
     old_mode |-> m.mode,
     old_head |-> m.head,
     new_diff_text |-> m.diff_text,
     new_filename |-> m.filename,
     new_head |-> m.head,
     new_mode |-> m.mode,
     skip |-> FALSE,
     amending |-> FALSE,
     old_commitmsg |-> <<>>,
     new_commitmsg |-> <<>>,
     old_directory |-> <<>>,
     path |-> None]

Command_do(c, m) ==
    [m EXCEPT !.filename = c.new_filename,
              !.head = c.new_head,
              !.mode = c.new_mode,
              !.diff_text = c.new_diff_text]

\* Command.undo() without its set_head call
Command_undo_keeps_head(c, m) ==
    [m EXCEPT !.diff_text = c.old_diff_text,
              !.filename = c.old_filename,
              !.mode = c.old_mode]

Command_undo(c, m) ==
    [m EXCEPT !.diff_text = c.old_diff_text,
              !.filename = c.old_filename,
              !.head = c.old_head,
              !.mode = c.old_mode]

\* what a do() or undo() hands back: the command object (do() may assign
\* attributes), the model, the calls made, and whether it raised
Result(c, m, t, raised) == [cmd |-> c, model |-> m, trace |-> t, raised |-> raised]

----------------------------------------------------------------------------
(* AmendMode *)

RECURSIVE FindAmend_any_command(_, _, _)
\* the loop without its type test: the latest command of any class is taken
FindAmend_any_command(stack, i, dflt) ==
    IF i >= Len(stack) THEN dflt
    ELSE LET idx == Len(stack) - i - 1
             cmdobj == stack[idx + 1]
         IN  IF cmdobj.amending \/ cmdobj.name # "AmendMode"
             THEN cmdobj.old_commitmsg
             ELSE FindAmend_any_command(stack, i + 1, dflt)

RECURSIVE FindAmend(_, _, _)
\* the loop of AmendMode.__init__ over the undo stack, latest command first
FindAmend(stack, i, dflt) ==
    IF i >= Len(stack) THEN dflt
    ELSE LET idx == Len(stack) - i - 1
             cmdobj == stack[idx + 1]
         IN  IF cmdobj.name # "AmendMode" THEN FindAmend(stack, i + 1, dflt)
             ELSE IF cmdobj.amending THEN cmdobj.old_commitmsg
             ELSE FindAmend(stack, i + 1, dflt)

AmendMode_init(amend, m, stack, prev) ==
    LET c == [Command_init(m) EXCEPT !.name = "AmendMode",
                                     !.undoable = TRUE,
                                     !.skip = FALSE,
                                     !.amending = amend,
                                     !.old_commitmsg = m.commitmsg]
    IN  IF amend
        THEN [c EXCEPT !.new_mode = mode_amend,
                       !.new_head = "HEAD^",
                       !.new_commitmsg = prev]
        ELSE [c EXCEPT !.new_mode = mode_none,
                       !.new_head = "HEAD",
                       !.new_diff_text = <<>>,
                       !.new_commitmsg =
                           IF stack = <<>> THEN m.commitmsg
                           ELSE FindAmend(stack, 0, m.commitmsg)]

\* AmendMode.do() not setting the head
AmendMode_do_keeps_head(c, m, merging) ==
    IF c.amending /\ merging
    THEN Result([c EXCEPT !.skip = TRUE], m,
                <<Ev("amend", -1, FALSE),
                  Ev("information", -1, "Oops! Unmerged")>>, FALSE)
    ELSE Result([c EXCEPT !.skip = FALSE],
                [Command_do(c, [m EXCEPT !.commitmsg = c.new_commitmsg])
                    EXCEPT !.head = m.head],
                <<Ev("amend", -1, c.amending),
                  Ev("update_file_status", -1, <<>>)>>, FALSE)

AmendMode_do(c, m, merging) ==
    IF c.amending /\ merging
    THEN Result([c EXCEPT !.skip = TRUE], m,
                <<Ev("amend", -1, FALSE),
                  Ev("information", -1, "Oops! Unmerged")>>, FALSE)
    ELSE Result([c EXCEPT !.skip = FALSE],
                Command_do(c, [m EXCEPT !.commitmsg = c.new_commitmsg]),
                <<Ev("amend", -1, c.amending),
                  Ev("update_file_status", -1, <<>>)>>, FALSE)

\* AmendMode.undo() without its test of skip
AmendMode_undo_ignores_skip(c, m) ==
    Result(c, Command_undo(c, [m EXCEPT !.commitmsg = c.old_commitmsg]),
           <<Ev("update_file_status", -1, <<>>)>>, FALSE)

AmendMode_undo(c, m) ==
    IF c.skip
    THEN Result(c, m, <<>>, FALSE)
    ELSE Result(c, Command_undo(c, [m EXCEPT !.commitmsg = c.old_commitmsg]),
                <<Ev("update_file_status", -1, <<>>)>>, FALSE)

----------------------------------------------------------------------------
(* ResetMode and Commit *)

ResetMode_init(m) ==
    [Command_init(m) EXCEPT !.name = "ResetMode",
                            !.new_mode = mode_none,
                            !.new_head = "HEAD",
                            !.new_diff_text = <<>>]

ResetMode_do(c, m) ==
    Result(c, Command_do(c, m), <<Ev("update_file_status", -1, <<>>)>>, FALSE)

Commit_init(amend, msg, m) ==
    [amend |-> amend, msg |-> msg] @@
    [ResetMode_init(m) EXCEPT !.name = "Commit",
                              !.old_commitmsg = m.commitmsg,
                              !.new_commitmsg = <<>>]

\* Commit.do() resetting the model whatever the status
Commit_do_always_resets(c, m, status, output) ==
    LET r == ResetMode_do(c, m)
    IN  Result(c, [r.model EXCEPT !.commitmsg = c.new_commitmsg],
               <<Ev("commit_with_msg", -1, [msg |-> c.msg, amend |-> c.amend])>>
               \o r.trace \o
               <<Ev("log_cmd", status,
                    <<IF status = 0 THEN "Commit: " ELSE "Commit failed: ">>
                    \o output)>>,
               FALSE)

\* Commit.do() broadcasting only from its success branch
Commit_do_logs_success_only(c, m, status, output) ==
    LET call == <<Ev("commit_with_msg", -1, [msg |-> c.msg, amend |-> c.amend])>>
    IN  IF status = 0
        THEN LET r == ResetMode_do(c, m)
             IN  Result(c, [r.model EXCEPT !.commitmsg = c.new_commitmsg],
                        call \o r.trace \o
                        <<Ev("log_cmd", status, <<"Commit: ">> \o output)>>,
                        FALSE)
        ELSE Result(c, m, call, FALSE)

\* status and output are what model.commit_with_msg returns
Commit_do(c, m, status, output) ==
    LET call == <<Ev("commit_with_msg", -1, [msg |-> c.msg, amend |-> c.amend])>>
    IN  IF status = 0
        THEN LET r == ResetMode_do(c, m)
             IN  Result(c, [r.model EXCEPT !.commitmsg = c.new_commitmsg],
                        call \o r.trace \o
                        <<Ev("log_cmd", status, <<"Commit: ">> \o output)>>,
                        FALSE)
        ELSE Result(c, m,
                    call \o
                    <<Ev("log_cmd", status, <<"Commit failed: ">> \o output)>>,
                    FALSE)

----------------------------------------------------------------------------
(* Diff and DiffStaged *)

\* text is what gitcmds.diff_helper returns
Diff_init(filenames, cached, m, text) ==
    LET c == [Command_init(m) EXCEPT !.name = "Diff"]
    IN  IF filenames = <<>> THEN c
        ELSE [c EXCEPT !.new_filename = filenames[1],
                       !.old_filename = m.filename,
                       !.new_mode = mode_worktree,
                       !.new_diff_text = text]

DiffStaged_init(filenames, m, text) ==
    [Diff_init(filenames, TRUE, m, text) EXCEPT !.name = "DiffStaged",
                                                !.new_mode = mode_index]

\* the calls a Diff constructor makes
Diff_calls(filenames, cached, m) ==
    IF filenames = <<>> THEN <<>>
    ELSE <<Ev("diff_helper", -1,
              [filename |-> filenames[1], cached |-> cached,
               ref |-> IF cached THEN m.head ELSE ""])>>

----------------------------------------------------------------------------
(* ApplyDiffSelection *)

ApplyDiffSelection_init(staged, selected, offset, selection, apply_to_worktree, m) ==
    [staged |-> staged, selected |-> selected, offset |-> offset,
     selection |-> selection, apply_to_worktree |-> apply_to_worktree] @@
    [Command_init(m) EXCEPT !.name = "ApplyDiffSelection"]

\* ApplyDiffSelection.do() returning after the broadcast when the apply failed
ApplyDiffSelection_do_stops_on_failure(c, m, status, output, text) ==
    LET diffcmd == IF c.staged THEN DiffStaged_init(<<m.filename>>, m, text)
                   ELSE Diff_init(<<m.filename>>, FALSE, m, text)
        applied == <<Ev("process_diff_selection", status,
                        [filename |-> m.filename, cached |-> c.staged,
                         reverse |-> c.apply_to_worktree,
                         apply_to_worktree |-> c.apply_to_worktree]),
                     Ev("log_cmd", status, output)>>
    IN  IF status # 0 THEN Result(c, m, applied, FALSE)
        ELSE Result(c, Command_do(diffcmd, m),
                    applied \o Diff_calls(<<m.filename>>, c.staged, m)
                            \o <<Ev("update_file_status", -1, <<>>)>>,
                    FALSE)

\* status and output are what parser.process_diff_selection returns, text
\* what gitcmds.diff_helper returns to the Diff that do() constructs
ApplyDiffSelection_do(c, m, status, output, text) ==
    LET diffcmd == IF c.staged THEN DiffStaged_init(<<m.filename>>, m, text)
                   ELSE Diff_init(<<m.filename>>, FALSE, m, text)
    IN  Result(c, Command_do(diffcmd, m),
               <<Ev("process_diff_selection", status,
                    [filename |-> m.filename, cached |-> c.staged,
                     reverse |-> c.apply_to_worktree,
                     apply_to_worktree |-> c.apply_to_worktree]),
                 Ev("log_cmd", status, output)>>
               \o Diff_calls(<<m.filename>>, c.staged, m)
               \o <<Ev("update_file_status", -1, <<>>)>>,
               FALSE)

----------------------------------------------------------------------------
(* LoadCommitMessage, LoadCommitTemplate, LoadPreviousMessage *)

\* the files that exist, and are regular files
isfile(path) == path \in {PathAM, PathBT}

\* p.rfind('/') + 1
RFindSlash(p) ==
    LET S == {i \in 1..Len(p) : p[i] = Slash}
    IN  IF S = {} THEN 0 ELSE CHOOSE i \in S : \A j \in S : j <= i

RECURSIVE RStripSlash(_)
RStripSlash(p) ==
    IF p # <<>> /\ p[Len(p)] = Slash THEN RStripSlash(SubSeq(p, 1, Len(p) - 1))
    ELSE p

\* os.path.dirname
dirname(p) ==
    LET head == SubSeq(p, 1, RFindSlash(p))
    IN  IF head # <<>> /\ (\E i \in 1..Len(head) : head[i] # Slash)
        THEN RStripSlash(head) ELSE head

\* os.path.basename
basename(p) == SubSeq(p, RFindSlash(p) + 1, Len(p))

LoadCommitMessage_init(path, m) ==
    [Command_init(m) EXCEPT !.name = "LoadCommitMessage",
                            !.undoable = TRUE,
                            !.path = path,
                            !.old_commitmsg = m.commitmsg,
                            !.old_directory = m.directory]

\* LoadCommitMessage.do() setting the directory before it looks for the file
LoadCommitMessage_do_sets_directory_first(c, m, content) ==
    LET path == c.path
    IN  IF path = None \/ path = <<>>
        THEN Result(c, m, <<>>, TRUE)
        ELSE IF ~isfile(path)
        THEN Result(c, [m EXCEPT !.directory = dirname(path)], <<>>, TRUE)
        ELSE Result(c, [m EXCEPT !.directory = dirname(path),
                                 !.commitmsg = content],
                    <<>>, FALSE)

\* content is what utils.slurp(path) returns
LoadCommitMessage_do(c, m, content) ==
    LET path == c.path
    IN  IF path = None \/ path = <<>> \/ ~isfile(path)
        THEN Result(c, m, <<>>, TRUE)
        ELSE Result(c, [m EXCEPT !.directory = dirname(path),
                                 !.commitmsg = content],
                    <<>>, FALSE)

\* LoadCommitMessage.undo() restoring the message only
LoadCommitMessage_undo_keeps_directory(c, m) ==
    Result(c, [m EXCEPT !.commitmsg = c.old_commitmsg], <<>>, FALSE)

LoadCommitMessage_undo(c, m) ==
    Result(c, [m EXCEPT !.commitmsg = c.old_commitmsg,
                        !.directory = c.old_directory],
           <<>>, FALSE)

\* template is what _config.get('commit.template') returns
LoadCommitTemplate_init(template, m) ==
    [LoadCommitMessage_init(template, m) EXCEPT !.name = "LoadCommitTemplate"]

LoadCommitTemplate_do(c, m, content) ==
    IF c.path = None THEN Result(c, m, <<>>, TRUE)
    ELSE LoadCommitMessage_do(c, m, content)

\* prev is what model.prev_commitmsg(sha1) returns
LoadPreviousMessage_init(prev, m) ==
    [Command_init(m) EXCEPT !.name = "LoadPreviousMessage",
                            !.old_commitmsg = m.commitmsg,
                            !.new_commitmsg = prev,
                            !.undoable = TRUE]

LoadPreviousMessage_do(c, m) ==
    Result(c, [m EXCEPT !.commitmsg = c.new_commitmsg], <<>>, FALSE)

LoadPreviousMessage_undo(c, m) ==
    Result(c, [m EXCEPT !.commitmsg = c.old_commitmsg], <<>>, FALSE)

----------------------------------------------------------------------------
(* ApplyPatches *)

\* a < b of two Python strings
StrLess(a, b) ==
    \E i \in 1..(Len(a) + 1) :
        /\ i <= Len(b)
        /\ \A j \in 1..(i - 1) : a[j] = b[j]
        /\ (i = Len(a) + 1 \/ a[i] < b[i])

RECURSIVE Insert(_, _)
\* x put behind the elements of the sorted list that are not greater
Insert(x, list) ==
    IF list = <<>> THEN <<x>>
    ELSE IF StrLess(x, Head(list)) THEN <<x>> \o list
    ELSE <<Head(list)>> \o Insert(x, Tail(list))

\* patches.sort() left out
Sort_keeps_order(list) == list

RECURSIVE Sort(_)
\* list.sort()
Sort(list) ==
    IF list = <<>> THEN <<>>
    ELSE Insert(list[Len(list)], Sort(SubSeq(list, 1, Len(list) - 1)))

ApplyPatches_init(patches, m) ==
    [patches |-> Sort(patches)] @@
    [Command_init(m) EXCEPT !.name = "ApplyPatches"]

\* a piece of the diffstat report
Piece(text, idx, num, name) == [text |-> text, idx |-> idx, num |-> num, name |-> name]

RECURSIVE ApplyLoop_stops_on_failure(_, _, _, _)
\* the for loop, left at the first patch that does not apply
ApplyLoop_stops_on_failure(patches, statuses, idx, acc) ==
    IF idx >= Len(patches) THEN acc
    ELSE LET patch == patches[idx + 1]
             status == statuses[idx + 1]
             num_patches == Len(patches)
             next == [trace |-> acc.trace
                         \o <<Ev("git.am", status, patch),
                              Ev("log_cmd", status, "output")>>
                         \o (IF num_patches > 1
                             THEN <<Ev("git.diff", -1, "HEAD^!")>> ELSE <<>>),
                      diff_text |-> acc.diff_text
                         \o (IF num_patches > 1
                             THEN <<Piece("Patch %d/%d - %s:", idx + 1, num_patches,
                                          basename(patch)),
                                    Piece("diff HEAD^!", 0, 0, <<>>)>>
                             ELSE <<>>)]
         IN  IF status # 0 THEN next
             ELSE ApplyLoop_stops_on_failure(patches, statuses, idx + 1, next)

RECURSIVE ApplyLoop(_, _, _, _)
\* the for loop from patch idx on; statuses are what git.am returns, patch
\* by patch; acc is the calls made and the report built so far
ApplyLoop(patches, statuses, idx, acc) ==
    IF idx >= Len(patches) THEN acc
    ELSE LET patch == patches[idx + 1]
             status == statuses[idx + 1]
             num_patches == Len(patches)
         IN  ApplyLoop(patches, statuses, idx + 1,
                 [trace |-> acc.trace
                     \o <<Ev("git.am", status, patch),
                          Ev("log_cmd", status, "output")>>
                     \o (IF num_patches > 1
                         THEN <<Ev("git.diff", -1, "HEAD^!")>> ELSE <<>>),
                  diff_text |-> acc.diff_text
                     \o (IF num_patches > 1
                         THEN <<Piece("Patch %d/%d - %s:", idx + 1, num_patches,
                                      basename(patch)),
                                Piece("diff HEAD^!", 0, 0, <<>>)>>
                         ELSE <<>>)])

ApplyPatches_do(c, m, statuses) ==
    LET loop == ApplyLoop(c.patches, statuses, 0,
                          [trace |-> <<Ev("git.rev_parse", -1, "HEAD")>>,
                           diff_text |-> <<>>])
        diff_text == loop.diff_text
                     \o <<Piece("Summary:", 0, 0, <<>>),
                          Piece("diff orig_head", 0, 0, <<>>)>>
    IN  Result(c, [m EXCEPT !.diff_text = diff_text],
               loop.trace
               \o <<Ev("git.diff", -1, "orig_head"),
                    Ev("update_file_status", -1, <<>>),
                    Ev("information", -1,
                       [count |-> Len(c.patches),
                        names |-> [i \in 1..Len(c.patches) |->
                                      basename(c.patches[i])]])>>,
               FALSE)

----------------------------------------------------------------------------
(* SetDiffText and SignOff *)

SetDiffText_init(text, m) ==
    [Command_init(m) EXCEPT !.name = "SetDiffText",
                            !.undoable = TRUE,
                            !.new_diff_text = text]

SignOff_init(m) ==
    [Command_init(m) EXCEPT !.name = "SignOff",
                            !.undoable = TRUE,
                            !.old_commitmsg = m.commitmsg]

\* SignOff.signoff(): one token, the text does not depend on the model
signoff == "\nSigned-off-by: name <email>"

\* signoff in commitmsg
Contains(msg, tok) == \E i \in 1..Len(msg) : msg[i] = tok

SignOff_do(c, m) ==
    IF Contains(m.commitmsg, signoff) THEN Result(c, m, <<>>, FALSE)
    ELSE Result(c, [m EXCEPT !.commitmsg = m.commitmsg \o <<"\n", signoff>>],
                <<>>, FALSE)

SignOff_undo(c, m) ==
    Result(c, [m EXCEPT !.commitmsg = c.old_commitmsg], <<>>, FALSE)

----------------------------------------------------------------------------
(* RunConfigAction *)

EnvNames == {"FILENAME", "REVISION", "ARGS"}

\* del os.environ[env], a KeyError being passed over
DelEnv(e, names) == [n \in (DOMAIN e) \ names |-> e[n]]

\* os.environ[env] = value
SetEnv(e, n, value) == (n :> value) @@ e

RunConfigAction_init(toolname, m) ==
    [toolname |-> toolname] @@
    [Command_init(m) EXCEPT !.name = "RunConfigAction"]

\* what a RunConfigAction.do() hands back
RunResult(e, t, r) == [environ |-> e, trace |-> t, ret |-> r]

NoReturn == -1        \* do() returned None

\* one pass of the while loop that takes an empty revision for an answer
PromptStep_accepts_empty(opts, a, t) ==
    LET t1 == t \o <<Ev("run_config_action", -1, opts.cmd)>>
    IN  IF ~a.ok
        THEN [again |-> FALSE, ok |-> FALSE, rev |-> <<>>, args |-> <<>>, trace |-> t1]
        ELSE [again |-> FALSE, ok |-> TRUE, rev |-> a.revision, args |-> a.args,
              trace |-> t1]

\* one pass of the while loop: a is what the run_config_action prompt returns
\* (ok) and leaves in opts (revision, args); again says that the loop goes on
PromptStep(opts, a, t) ==
    LET t1 == t \o <<Ev("run_config_action", -1, opts.cmd)>>
    IN  IF ~a.ok
        THEN [again |-> FALSE, ok |-> FALSE, rev |-> <<>>, args |-> <<>>, trace |-> t1]
        ELSE IF opts.revprompt /\ a.revision = <<>>
        THEN [again |-> TRUE, ok |-> TRUE, rev |-> a.revision, args |-> a.args,
              trace |-> t1 \o <<Ev("critical", -1, "Invalid Revision")>>]
        ELSE [again |-> FALSE, ok |-> TRUE, rev |-> a.revision, args |-> a.args,
              trace |-> t1]

RECURSIVE PromptLoop(_, _, _)
\* the while loop: answers are what the run_config_action prompt returns
\* (ok) and leaves in opts (revision, args), one per time it is shown
PromptLoop(opts, answers, t) ==
    LET a == Head(answers)
        t1 == t \o <<Ev("run_config_action", -1, opts.cmd)>>
    IN  IF ~a.ok THEN [ok |-> FALSE, rev |-> <<>>, args |-> <<>>, trace |-> t1]
        ELSE IF opts.revprompt /\ a.revision = <<>>
        THEN PromptLoop(opts, Tail(answers),
                        t1 \o <<Ev("critical", -1, "Invalid Revision")>>)
        ELSE [ok |-> TRUE, rev |-> a.revision, args |-> a.args, trace |-> t1]

\* the part of do() from 'if rev:' on, rescanning whatever norescan says
RunConfigAction_run_always_rescans(opts, e, rev, args, t, status) ==
    LET e1 == IF rev # <<>> THEN SetEnv(e, "REVISION", rev) ELSE e
        e2 == IF args # <<>> THEN SetEnv(e1, "ARGS", args) ELSE e1
    IN  RunResult(e2,
            t \o <<Ev("log_cmd", 0, "running: ")>>
              \o (IF opts.noconsole
                  THEN <<Ev("utils.run_command", status, opts.cmd)>>
                  ELSE <<Ev("run_command", status, opts.cmd)>>)
              \o <<Ev("log_cmd", status, "stdout: ")>>
              \o <<Ev("update_status", -1, <<>>)>>,
            status)

\* the part of do() from 'if rev:' on; status is what the shell command exits with
RunConfigAction_run(opts, e, rev, args, t, status) ==
    LET e1 == IF rev # <<>> THEN SetEnv(e, "REVISION", rev) ELSE e
        e2 == IF args # <<>> THEN SetEnv(e1, "ARGS", args) ELSE e1
    IN  RunResult(e2,
            t \o <<Ev("log_cmd", 0, "running: ")>>
              \o (IF opts.noconsole
                  THEN <<Ev("utils.run_command", status, opts.cmd)>>
                  ELSE <<Ev("run_command", status, opts.cmd)>>)
              \o <<Ev("log_cmd", status, "stdout: ")>>
              \o (IF ~opts.norescan THEN <<Ev("update_status", -1, <<>>)>>
                  ELSE <<>>),
            status)

\* RunConfigAction.do() going on after a cancelled prompt or the answer no
RunConfigAction_do_never_aborts(opts, e, sel, answers, yes, status) ==
    LET e0 == DelEnv(e, EnvNames)
    IN  IF opts.needsfile /\ sel = <<>>
        THEN RunResult(e0, <<Ev("information", -1, "Please select a file")>>,
                       NoReturn)
        ELSE
        LET e1 == IF opts.needsfile THEN SetEnv(e0, "FILENAME", sel) ELSE e0
        IN  IF opts.revprompt \/ opts.argprompt
            THEN LET p == PromptLoop(opts, answers, <<>>)
                 IN  RunConfigAction_run(opts, e1, p.rev, p.args, p.trace, status)
            ELSE IF opts.confirm
            THEN RunConfigAction_run(opts, e1, <<>>, <<>>,
                                     <<Ev("question", -1, opts.cmd)>>, status)
            ELSE RunConfigAction_run(opts, e1, <<>>, <<>>, <<>>, status)

\* RunConfigAction.do() without the deletion it starts with
RunConfigAction_do_keeps_environ(opts, e, sel, answers, yes, status) ==
    IF opts.needsfile /\ sel = <<>>
    THEN RunResult(e, <<Ev("information", -1, "Please select a file")>>, NoReturn)
    ELSE
    LET e1 == IF opts.needsfile THEN SetEnv(e, "FILENAME", sel) ELSE e
    IN  IF opts.revprompt \/ opts.argprompt
        THEN LET p == PromptLoop(opts, answers, <<>>)
             IN  IF ~p.ok THEN RunResult(e1, p.trace, NoReturn)
                 ELSE RunConfigAction_run(opts, e1, p.rev, p.args, p.trace, status)
        ELSE IF opts.confirm
        THEN LET t == <<Ev("question", -1, opts.cmd)>>
             IN  IF ~yes THEN RunResult(e1, t, NoReturn)
                 ELSE RunConfigAction_run(opts, e1, <<>>, <<>>, t, status)
        ELSE RunConfigAction_run(opts, e1, <<>>, <<>>, <<>>, status)

\* RunConfigAction.do() with a tool whose options are opts, os.environ being
\* e and the selected file sel ('' when there is none); yes is the answer to
\* the question prompt
RunConfigAction_do(opts, e, sel, answers, yes, status) ==
    LET e0 == DelEnv(e, EnvNames)
    IN  IF opts.needsfile /\ sel = <<>>
        THEN RunResult(e0, <<Ev("information", -1, "Please select a file")>>,
                       NoReturn)
        ELSE
        LET e1 == IF opts.needsfile THEN SetEnv(e0, "FILENAME", sel) ELSE e0
        IN  IF opts.revprompt \/ opts.argprompt
            THEN LET p == PromptLoop(opts, answers, <<>>)
                 IN  IF ~p.ok THEN RunResult(e1, p.trace, NoReturn)
                     ELSE RunConfigAction_run(opts, e1, p.rev, p.args, p.trace, status)
            ELSE IF opts.confirm
            THEN LET t == <<Ev("question", -1, opts.cmd)>>
                 IN  IF ~yes THEN RunResult(e1, t, NoReturn)
                     ELSE RunConfigAction_run(opts, e1, <<>>, <<>>, t, status)
            ELSE RunConfigAction_run(opts, e1, <<>>, <<>>, <<>>, status)

----------------------------------------------------------------------------
(* UntrackedSummary *)

\* '%s' % n
Decimal(n) == <<"0", "1", "2", "3", "4">>[n + 1]

RECURSIVE WriteRules(_)
\* the for loop over untracked: io.write('/' + u) for each
WriteRules(untracked) ==
    IF untracked = <<>> THEN <<>>
    ELSE <<"/">> \o Head(untracked) \o WriteRules(Tail(untracked))

\* untracked is model.untracked when the command is constructed
UntrackedSummary_init(untracked, m) ==
    LET suffix == IF Len(untracked) > 1 THEN <<"s">> ELSE <<>>
        io == <<"# ", Decimal(Len(untracked)), " untracked file">> \o suffix
              \o <<"\n">>
              \o (IF untracked # <<>>
                  THEN <<"# possible .gitignore rule">> \o suffix \o <<":", "\n">>
                       \o WriteRules(untracked)
                  ELSE <<>>)
    IN  [Command_init(m) EXCEPT !.name = "UntrackedSummary",
                                !.new_diff_text = io,
                                !.new_mode = mode_untracked]

----------------------------------------------------------------------------
(* Stage, Unstage, UnstageAll, Untrack *)

RECURSIVE Join(_, _)
\* sep.join(paths)
Join(sep, paths) ==
    IF paths = <<>> THEN <<>>
    ELSE IF Len(paths) = 1 THEN paths[1]
    ELSE paths[1] \o <<sep>> \o Join(sep, Tail(paths))

Stage_init(paths, m) ==
    [paths |-> paths] @@ [Command_init(m) EXCEPT !.name = "Stage"]

\* Stage.do() calling the model before it broadcasts
Stage_do_stages_first(c, m) ==
    Result(c, m,
           <<Ev("stage_paths", -1, c.paths),
             Ev("log_cmd", 0, <<"Staging: ">> \o Join(", ", c.paths))>>,
           FALSE)

Stage_do(c, m) ==
    Result(c, m,
           <<Ev("log_cmd", 0, <<"Staging: ">> \o Join(", ", c.paths)),
             Ev("stage_paths", -1, c.paths)>>,
           FALSE)

Unstage_init(paths, m) ==
    [paths |-> paths] @@ [Command_init(m) EXCEPT !.name = "Unstage"]

Unstage_do(c, m) ==
    Result(c, m,
           <<Ev("log_cmd", 0, <<"Unstaging: ">> \o Join(", ", c.paths)),
             Ev("unstage_paths", -1, c.paths)>>,
           FALSE)

UnstageAll_init(m) == [Command_init(m) EXCEPT !.name = "UnstageAll"]

UnstageAll_do(c, m) == Result(c, m, <<Ev("unstage_all", -1, <<>>)>>, FALSE)

Untrack_init(paths, m) ==
    [paths |-> paths] @@ [Command_init(m) EXCEPT !.name = "Untrack"]

\* status and out are what model.untrack_paths returns
Untrack_do(c, m, status, out) ==
    Result(c, m,
           <<Ev("log_cmd", 0, <<"Untracking: ">> \o Join(", ", c.paths)),
             Ev("untrack_paths", status, c.paths),
             Ev("log_cmd", status, out)>>,
           FALSE)

----------------------------------------------------------------------------
(* Checkout, CheckoutBranch, CherryPick, DeleteBranch, Tag, Clone *)

Checkout_init(argv, checkout_branch, m) ==
    [argv |-> argv, checkout_branch |-> checkout_branch] @@
    [Command_init(m) EXCEPT !.name = "Checkout", !.new_diff_text = <<>>]

\* Checkout.do() applying the fields its constructor prepared
Checkout_do_applies_fields(c, m, status, output) ==
    Result(c, Command_do(c, m),
           <<Ev("git.checkout", status, c.argv),
             Ev("log_cmd", status, output),
             IF c.checkout_branch THEN Ev("update_status", -1, <<>>)
             ELSE Ev("update_file_status", -1, <<>>)>>,
           FALSE)

\* status and output are what git checkout returns
Checkout_do(c, m, status, output) ==
    Result(c, m,
           <<Ev("git.checkout", status, c.argv),
             Ev("log_cmd", status, output),
             IF c.checkout_branch THEN Ev("update_status", -1, <<>>)
             ELSE Ev("update_file_status", -1, <<>>)>>,
           FALSE)

\* the constructor hands on the branch only
CheckoutBranch_init(branch, checkout_branch, m) ==
    [Checkout_init(<<branch>>, FALSE, m) EXCEPT !.name = "CheckoutBranch"]

CherryPick_init(commits, m) ==
    [commits |-> commits] @@ [Command_init(m) EXCEPT !.name = "CherryPick"]

CherryPick_do(c, m) ==
    Result(c, m,
           <<Ev("cherry_pick_list", -1, c.commits),
             Ev("update_file_status", -1, <<>>)>>,
           FALSE)

DeleteBranch_init(branch, m) ==
    [branch |-> branch] @@ [Command_init(m) EXCEPT !.name = "DeleteBranch"]

\* status and output are what model.delete_branch returns
DeleteBranch_do(c, m, status, output) ==
    Result(c, m,
           <<Ev("delete_branch", status, c.branch),
             Ev("log_cmd", status,
                IF output # <<>> /\ output[1] = "error:"
                THEN <<"Error:">> \o Tail(output)
                ELSE <<"Info: ">> \o output)>>,
           FALSE)

Tag_init(name, revision, sign, message, m) ==
    [tagname |-> name, message |-> message, revision |-> revision, sign |-> sign] @@
    [Command_init(m) EXCEPT !.name = "Tag"]

\* Tag.do() removing the message file after a successful tag only
Tag_do_unlinks_on_success(c, m, status, output) ==
    LET F == c.message # <<>>
        opts == [F |-> F, s |-> c.sign, a |-> ~c.sign /\ F]
        log_msg == <<"Tagging: ", c.revision, " as ", c.tagname>>
                   \o (IF c.sign THEN <<", GPG-signed">> ELSE <<>>)
                   \o (IF output # <<>> THEN <<"\nOutput:\n">> \o output ELSE <<>>)
    IN  Result(c, m,
               (IF F THEN <<Ev("utils.write", -1, c.message)>> ELSE <<>>)
               \o <<Ev("git.tag", status,
                       [name |-> c.tagname, revision |-> c.revision, opts |-> opts])>>
               \o (IF F /\ status = 0 THEN <<Ev("os.unlink", -1, <<>>)>> ELSE <<>>)
               \o <<Ev("log_cmd", status, log_msg)>>
               \o (IF status = 0 THEN <<Ev("update_status", -1, <<>>)>> ELSE <<>>),
               FALSE)

\* status and output are what git tag returns
Tag_do(c, m, status, output) ==
    LET F == c.message # <<>>
        opts == [F |-> F, s |-> c.sign, a |-> ~c.sign /\ F]
        log_msg == <<"Tagging: ", c.revision, " as ", c.tagname>>
                   \o (IF c.sign THEN <<", GPG-signed">> ELSE <<>>)
                   \o (IF output # <<>> THEN <<"\nOutput:\n">> \o output ELSE <<>>)
    IN  Result(c, m,
               (IF F THEN <<Ev("utils.write", -1, c.message)>> ELSE <<>>)
               \o <<Ev("git.tag", status,
                       [name |-> c.tagname, revision |-> c.revision, opts |-> opts])>>
               \o (IF F THEN <<Ev("os.unlink", -1, <<>>)>> ELSE <<>>)
               \o <<Ev("log_cmd", status, log_msg)>>
               \o (IF status = 0 THEN <<Ev("update_status", -1, <<>>)>> ELSE <<>>),
               FALSE)

Clone_init(url, destdir, spawn, m) ==
    [url |-> url, new_directory |-> destdir, spawn |-> spawn] @@
    [Command_init(m) EXCEPT !.name = "Clone"]

\* status is what git clone exits with
Clone_do(c, m, status) ==
    Result(c, m,
           <<Ev("git.clone", status, [url |-> c.url, directory |-> c.new_directory])>>
           \o (IF c.spawn THEN <<Ev("utils.fork", -1, c.new_directory)>> ELSE <<>>),
           FALSE)

----------------------------------------------------------------------------
(* The command factory *)

\* a factory that keeps every command it ran
Factory_push_keeps_all(stack, r) == Append(stack, r.cmd)

\* the undo stack after a command was constructed and executed
Factory_push(stack, r) ==
    IF ~r.raised /\ r.cmd.undoable THEN Append(stack, r.cmd) ELSE stack

\* undo() of the command class that c is an object of
Cmd_undo(c, m) ==
    CASE c.name = "AmendMode" -> AmendMode_undo(c, m)
      [] c.name = "LoadCommitMessage" -> LoadCommitMessage_undo(c, m)
      [] c.name = "LoadCommitTemplate" -> LoadCommitMessage_undo(c, m)
      [] c.name = "LoadPreviousMessage" -> LoadPreviousMessage_undo(c, m)
      [] c.name = "SignOff" -> SignOff_undo(c, m)
      [] OTHER -> Result(c, Command_undo(c, m), <<>>, FALSE)

----------------------------------------------------------------------------
(* The session: commands are dispatched one at a time *)

\* the model when the session starts
InitModel ==
    [diff_text |-> <<>>, filename |-> None, mode |-> mode_none,
     head |-> "HEAD", commitmsg |-> <<>>, directory |-> <<>>]

NoCmd == [name |-> "none", undoable |-> FALSE, amending |-> FALSE, skip |-> FALSE]

\* the record of a step: which command object ran (its class, its flags),
\* whether do() raised, whether an undo directly followed the do() of its
\* command, whether MERGE_HEAD existed, the subprocess status if any, the
\* list the command was constructed with if it takes one
Last(op, c, raised, imm, status) ==
    [op |-> op,
     cmd |-> [name |-> c.name, undoable |-> c.undoable,
              amending |-> c.amending, skip |-> c.skip],
     raised |-> raised, imm |-> imm,
     merging |-> merge_head, status |-> status,
     args |-> <<>>]

\* a tool as _config.get_guitool_opts returns it
ToolOpts ==
    [cmd : {"tool"}, needsfile : BOOLEAN, revprompt : BOOLEAN,
     argprompt : BOOLEAN, confirm : BOOLEAN, noconsole : BOOLEAN,
     norescan : BOOLEAN]

NoTool == [cmd |-> "", needsfile |-> FALSE, revprompt |-> FALSE,
           argprompt |-> FALSE, confirm |-> FALSE, noconsole |-> FALSE,
           norescan |-> FALSE]

\* no tool has run, no file is selected, none of the three variables is set
InitTools ==
    /\ environ = <<>>
    /\ selfile = <<>>
    /\ tool = NoTool
    /\ ret = NoReturn

\* the models a session can show before any undoable command ran: the start,
\* or a diff of a file (Diff and DiffStaged are not kept on the undo stack)
ViewModels ==
    {InitModel}
    \cup {Command_do(Diff_init(<<PathAM>>, FALSE, InitModel, t), InitModel) : t \in Texts}
    \cup {Command_do(DiffStaged_init(<<PathAM>>, InitModel, t), InitModel) : t \in Texts}

Init ==
    /\ model \in ViewModels
    /\ undostack = <<>>
    /\ merge_head = FALSE
    /\ headmsg \in Msgs
    /\ trace = <<>>
    /\ snap = model
    /\ last = Last("init", NoCmd, FALSE, FALSE, -1)
    /\ InitTools

\* the factory constructs the command with args, runs do() and keeps it if
\* undoable
DispatchWith(r, status, depth, args) ==
    /\ r.cmd.undoable => Len(undostack) < depth
    /\ UNCHANGED toolvars
    /\ model' = r.model
    /\ undostack' = Factory_push(undostack, r)
    /\ trace' = r.trace
    /\ snap' = model
    /\ last' = [Last("do", r.cmd, r.raised, FALSE, status) EXCEPT !.args = args]

Dispatch(r, status, depth) == DispatchWith(r, status, depth, <<>>)

DoAmendMode(depth) ==
    \E amend \in BOOLEAN :
        /\ Dispatch(AmendMode_do(AmendMode_init(amend, model, undostack, headmsg),
                                 model, merge_head), -1, depth)
        /\ UNCHANGED <<merge_head, headmsg>>

DoLoadCommitMessage(depth) ==
    \E path \in {<<>>, PathAM, PathAX}, content \in Msgs :
        /\ DispatchWith(LoadCommitMessage_do(LoadCommitMessage_init(path, model),
                                             model, content), -1, depth, path)
        /\ UNCHANGED <<merge_head, headmsg>>

DoLoadCommitTemplate(depth) ==
    \E template \in {None, PathBT}, content \in Msgs :
        /\ DispatchWith(LoadCommitTemplate_do(LoadCommitTemplate_init(template, model),
                                              model, content), -1, depth, template)
        /\ UNCHANGED <<merge_head, headmsg>>

DoLoadPreviousMessage(depth) ==
    \E prev \in Msgs :
        /\ Dispatch(LoadPreviousMessage_do(LoadPreviousMessage_init(prev, model),
                                           model), -1, depth)
        /\ UNCHANGED <<merge_head, headmsg>>

DoSetDiffText(depth) ==
    \E text \in Texts :
        /\ Dispatch(Result(SetDiffText_init(text, model),
                           Command_do(SetDiffText_init(text, model), model),
                           <<>>, FALSE), -1, depth)
        /\ UNCHANGED <<merge_head, headmsg>>

DoSignOff(depth) ==
    /\ Dispatch(SignOff_do(SignOff_init(model), model), -1, depth)
    /\ UNCHANGED <<merge_head, headmsg>>

\* a successful commit becomes the most recent commit
DoCommit ==
    \E amend \in BOOLEAN, msg \in Msgs, status \in Statuses, output \in Texts :
        /\ Dispatch(Commit_do(Commit_init(amend, msg, model),
                              model, status, output), status, 0)
        /\ headmsg' = IF status = 0 THEN msg ELSE headmsg
        /\ UNCHANGED merge_head

DoDiff ==
    \E filenames \in {<<>>, <<PathAM>>}, cached \in BOOLEAN, text \in Texts :
        /\ Dispatch(Result(Diff_init(filenames, cached, model, text),
                           Command_do(Diff_init(filenames, cached, model, text), model),
                           Diff_calls(filenames, cached, model), FALSE), -1, 0)
        /\ UNCHANGED <<merge_head, headmsg>>

DoDiffStaged ==
    \E filenames \in {<<>>, <<PathAM>>}, text \in Texts :
        /\ Dispatch(Result(DiffStaged_init(filenames, model, text),
                           Command_do(DiffStaged_init(filenames, model, text), model),
                           Diff_calls(filenames, TRUE, model), FALSE), -1, 0)
        /\ UNCHANGED <<merge_head, headmsg>>

\* the last step ran the do() of the command now on top of the undo stack
DirectlyAfterDo == last.op = "do" /\ ~last.raised /\ last.cmd.undoable

\* the factory pops the latest command and runs its undo()
Undo ==
    /\ undostack # <<>>
    /\ LET c == undostack[Len(undostack)]
           r == Cmd_undo(c, model)
       IN  /\ model' = r.model
           /\ undostack' = SubSeq(undostack, 1, Len(undostack) - 1)
           /\ trace' = r.trace
           /\ last' = Last("undo", c, FALSE, DirectlyAfterDo, -1)
           /\ snap' = IF DirectlyAfterDo THEN snap ELSE r.model
    /\ UNCHANGED <<merge_head, headmsg, toolvars>>

\* a merge starts or ends outside the program
MergeChanges ==
    /\ merge_head' = ~merge_head
    /\ trace' = <<>>
    /\ last' = [Last("env", NoCmd, FALSE, FALSE, -1) EXCEPT !.merging = ~merge_head]
    /\ snap' = model
    /\ UNCHANGED <<model, undostack, headmsg, toolvars>>

\* the user types in the commit message editor, which sets model.commitmsg
UserEditsMessage ==
    \E msg \in Msgs \cup {<<>>} :
        /\ msg # model.commitmsg
        /\ model' = [model EXCEPT !.commitmsg = msg]
        /\ trace' = <<>>
        /\ last' = Last("env", NoCmd, FALSE, FALSE, -1)
        /\ snap' = model'
        /\ UNCHANGED <<undostack, merge_head, headmsg, toolvars>>

Next ==
    \/ DoAmendMode(MaxUndo)
    \/ DoLoadCommitMessage(MaxUndo)
    \/ DoLoadCommitTemplate(MaxUndo)
    \/ DoLoadPreviousMessage(MaxUndo)
    \/ DoSetDiffText(MaxUndo)
    \/ DoSignOff(MaxUndo)
    \/ Undo
    \/ MergeChanges

Spec == Init /\ [][Next]_vars

----------------------------------------------------------------------------
(* Amending: a session in which the user enters and leaves amend mode,     *)
(* loads earlier messages, edits the message and undoes                    *)

InitAmend ==
    /\ model = InitModel
    /\ undostack = <<>>
    /\ merge_head = FALSE
    /\ headmsg = <<"m1">>
    /\ trace = <<>>
    /\ snap = model
    /\ last = Last("init", NoCmd, FALSE, FALSE, -1)
    /\ InitTools

NextAmend ==
    \/ DoAmendMode(MaxAmend)
    \/ DoLoadPreviousMessage(MaxAmend)
    \/ Undo
    \/ MergeChanges
    \/ UserEditsMessage

SpecAmend == InitAmend /\ [][NextAmend]_vars

----------------------------------------------------------------------------
(* Committing: a session in which the user diffs files, edits the message, *)
(* has entered amend mode or not, and commits                              *)

\* the session right after it entered amend mode from model m
Amending(m, prev) == AmendMode_do(AmendMode_init(TRUE, m, <<>>, prev), m, FALSE)

InitCommit ==
    /\ headmsg \in Msgs
    /\ \E m \in ViewModels :
          \/ model = m /\ undostack = <<>>
          \/ /\ model = Amending(m, headmsg).model
             /\ undostack = <<Amending(m, headmsg).cmd>>
    /\ merge_head = FALSE
    /\ trace = <<>>
    /\ snap = model
    /\ last = Last("init", NoCmd, FALSE, FALSE, -1)
    /\ InitTools

NextCommit ==
    \/ DoCommit
    \/ DoDiff
    \/ DoDiffStaged
    \/ UserEditsMessage

SpecCommit == InitCommit /\ [][NextCommit]_vars

----------------------------------------------------------------------------
(* Tools: a session in which the user selects files and runs configured    *)
(* tools                                                                   *)

\* what the user does with the run_config_action prompt
Answers == [ok : BOOLEAN, revision : {<<>>, <<"r1">>}, args : {<<>>, <<"a1">>}]

\* an answer after which the prompt is shown again
Retry == [ok |-> TRUE, revision |-> <<>>, args |-> <<>>]

\* the answers that end the prompt loop of a tool
FinalAnswers(opts) ==
    {a \in Answers : ~a.ok \/ (opts.revprompt => a.revision # <<>>)}

\* the inputs that the run of a tool reads: how often the user submits an
\* empty revision, the final answer, the answer to the question, the exit
\* status; an input that the run does not read has one value; the step
\* records whether the user cancelled the prompt or answered no
DoRunConfigAction ==
    \E opts \in ToolOpts :
    LET refused == opts.needsfile /\ selfile = <<>>
        prompts == (opts.revprompt \/ opts.argprompt) /\ ~refused
        asks == opts.confirm /\ ~(opts.revprompt \/ opts.argprompt) /\ ~refused
    IN
    \E k \in IF opts.revprompt /\ prompts THEN 0..MaxRetries ELSE {0} :
    \E final \in IF prompts THEN FinalAnswers(opts) ELSE {[ok |-> FALSE, revision |-> <<>>, args |-> <<>>]} :
    \E yes \in IF asks THEN BOOLEAN ELSE {TRUE} :
    \E status \in IF refused \/ (prompts /\ ~final.ok) \/ (asks /\ ~yes)
                   THEN {0} ELSE Statuses :
        /\ LET c == RunConfigAction_init("tool", model)
               r == RunConfigAction_do(opts, environ, selfile,
                                       [i \in 1..k |-> Retry] \o <<final>>,
                                       yes, status)
           IN  /\ environ' = r.environ
               /\ trace' = r.trace
               /\ ret' = r.ret
               /\ last' = [Last("do", c, FALSE, FALSE, status)
                              EXCEPT !.args = [cancelled |-> prompts /\ ~final.ok,
                                               declined |-> asks /\ ~yes]]
        /\ tool' = opts
        /\ snap' = model
        /\ UNCHANGED <<model, undostack, merge_head, headmsg, selfile>>

\* the user selects a file, or clears the selection
SelectionChanges ==
    \E f \in {<<>>, PathAM} :
        /\ f # selfile
        /\ selfile' = f
        /\ trace' = <<>>
        /\ last' = Last("env", NoCmd, FALSE, FALSE, -1)
        /\ UNCHANGED <<model, undostack, merge_head, headmsg, snap,
                       environ, tool, ret>>

InitRun ==
    /\ model = InitModel
    /\ undostack = <<>>
    /\ merge_head = FALSE
    /\ headmsg = <<"m1">>
    /\ trace = <<>>
    /\ snap = model
    /\ last = Last("init", NoCmd, FALSE, FALSE, -1)
    /\ InitTools

NextRun ==
    \/ DoRunConfigAction
    \/ SelectionChanges

SpecRun == InitRun /\ [][NextRun]_vars

----------------------------------------------------------------------------
(* Patches: a session in which the user applies batches of patches        *)

\* "/a/1", "/a/10", "/b/0"
PatchPaths == {<<47, 97, 47, 49>>, <<47, 97, 47, 49, 48>>, <<47, 98, 47, 48>>}

DoApplyPatches ==
    \E n \in 0..MaxPatches :
    \E patches \in [1..n -> PatchPaths], statuses \in [1..n -> {0, 1}] :
        /\ DispatchWith(ApplyPatches_do(ApplyPatches_init(patches, model),
                                        model, statuses), -1, 0, patches)
        /\ UNCHANGED <<merge_head, headmsg>>

InitPatches ==
    /\ model = InitModel
    /\ undostack = <<>>
    /\ merge_head = FALSE
    /\ headmsg = <<"m1">>
    /\ trace = <<>>
    /\ snap = model
    /\ last = Last("init", NoCmd, FALSE, FALSE, -1)
    /\ InitTools

NextPatches == DoApplyPatches

SpecPatches == InitPatches /\ [][NextPatches]_vars

----------------------------------------------------------------------------
(* Hunks: a session in which the user diffs a file and applies selections  *)
(* of the diff                                                             *)

DoApplyDiffSelection ==
    \E staged \in BOOLEAN, selected \in BOOLEAN, apply_to_worktree \in BOOLEAN,
       status \in Statuses, output \in Texts, text \in Texts :
        /\ DispatchWith(ApplyDiffSelection_do(
                            ApplyDiffSelection_init(staged, selected, 0, <<"hunk">>,
                                                    apply_to_worktree, model),
                            model, status, output, text), status, 0, output)
        /\ UNCHANGED <<merge_head, headmsg>>

NextHunks ==
    \/ DoApplyDiffSelection
    \/ DoDiff
    \/ DoDiffStaged

SpecHunks == InitPatches /\ [][NextHunks]_vars

----------------------------------------------------------------------------
(* Index: a session in which the user stages, unstages and untracks paths,  *)
(* looks at the untracked files and runs the commands that call git        *)

\* lists of "a", "b", "d/c"
PathLists ==
    UNION {[1..n -> {<<"a">>, <<"b">>, <<"d", "/", "c">>}] : n \in 0..MaxPaths}

DoUntrackedSummary ==
    \E untracked \in PathLists :
        /\ DispatchWith(Result(UntrackedSummary_init(untracked, model),
                               Command_do(UntrackedSummary_init(untracked, model),
                                          model),
                               <<>>, FALSE), -1, 0, untracked)
        /\ UNCHANGED <<merge_head, headmsg>>

\* the part of register()'s signal_to_command_map that this session uses
signal_to_command_map ==
    [stage |-> "Stage", unstage |-> "Unstage", unstage_all |-> "UnstageAll",
     untrack |-> "Untrack", untracked_summary |-> "UntrackedSummary"]

\* the command class that the factory constructs for signal, run with paths;
\* status and out are what untrack_paths returns
Run(signal, paths, m, status, out) ==
    CASE signal_to_command_map[signal] = "Stage" ->
            Stage_do(Stage_init(paths, m), m)
      [] signal_to_command_map[signal] = "Unstage" ->
            Unstage_do(Unstage_init(paths, m), m)
      [] signal_to_command_map[signal] = "UnstageAll" ->
            UnstageAll_do(UnstageAll_init(m), m)
      [] signal_to_command_map[signal] = "Untrack" ->
            Untrack_do(Untrack_init(paths, m), m, status, out)

DoStage ==
    \E paths \in PathLists :
        /\ DispatchWith(Run("stage", paths, model, 0, <<>>), -1, 0, paths)
        /\ UNCHANGED <<merge_head, headmsg>>

DoUnstage ==
    \E paths \in PathLists :
        /\ DispatchWith(Run("unstage", paths, model, 0, <<>>), -1, 0, paths)
        /\ UNCHANGED <<merge_head, headmsg>>

DoUnstageAll ==
    /\ Dispatch(Run("unstage_all", <<>>, model, 0, <<>>), -1, 0)
    /\ UNCHANGED <<merge_head, headmsg>>

DoUntrack ==
    \E paths \in PathLists, status \in Statuses, out \in Texts :
        /\ DispatchWith(Run("untrack", paths, model, status, out), status, 0, paths)
        /\ UNCHANGED <<merge_head, headmsg>>

NextIndex ==
    \/ DoUntrackedSummary
    \/ DoStage
    \/ DoUnstage
    \/ DoUnstageAll
    \/ DoUntrack

SpecIndex == InitPatches /\ [][NextIndex]_vars

----------------------------------------------------------------------------
(* Git: a session in which the user runs the commands that call git        *)

DoCheckout ==
    \E checkout_branch \in BOOLEAN, status \in Statuses, output \in Texts :
        /\ DispatchWith(Checkout_do(Checkout_init(<<"--", "a">>, checkout_branch, model),
                                    model, status, output), status, 0,
                        [checkout_branch |-> checkout_branch])
        /\ UNCHANGED <<merge_head, headmsg>>

DoCheckoutBranch ==
    \E checkout_branch \in BOOLEAN, status \in Statuses, output \in Texts :
        /\ DispatchWith(Checkout_do(CheckoutBranch_init("topic", checkout_branch, model),
                                    model, status, output), status, 0,
                        [checkout_branch |-> checkout_branch])
        /\ UNCHANGED <<merge_head, headmsg>>

DoCherryPick ==
    \E commits \in {<<>>, <<"c1">>, <<"c1", "c2">>} :
        /\ DispatchWith(CherryPick_do(CherryPick_init(commits, model), model),
                        -1, 0, commits)
        /\ UNCHANGED <<merge_head, headmsg>>

DoDeleteBranch ==
    \E status \in Statuses, output \in {<<>>, <<"d1">>, <<"error:", "d1">>} :
        /\ Dispatch(DeleteBranch_do(DeleteBranch_init("topic", model),
                                    model, status, output), status, 0)
        /\ UNCHANGED <<merge_head, headmsg>>

DoTag ==
    \E sign \in BOOLEAN, message \in {<<>>, <<"m1">>},
       status \in Statuses, output \in Texts :
        /\ DispatchWith(Tag_do(Tag_init("v1", "HEAD", sign, message, model),
                               model, status, output), status, 0, message)
        /\ UNCHANGED <<merge_head, headmsg>>

DoClone ==
    \E spawn \in BOOLEAN, status \in Statuses :
        /\ Dispatch(Clone_do(Clone_init("url", <<"d">>, spawn, model), model, status),
                    status, 0)
        /\ UNCHANGED <<merge_head, headmsg>>

NextGit ==
    \/ DoCheckout
    \/ DoCheckoutBranch
    \/ DoCherryPick
    \/ DoDeleteBranch
    \/ DoTag
    \/ DoClone
    \/ DoCommit
    \/ DoUnstageAll
    \/ DoUntrack
    \/ DoDiff

SpecGit == InitPatches /\ [][NextGit]_vars

----------------------------------------------------------------------------
(* Views: a session in which the user looks at diffs of a file, sets the   *)
(* diff text, enters and leaves amend mode and undoes; what diff_helper    *)
(* returns says which diff it is                                           *)

\* what gitcmds.diff_helper returns when called by a Diff constructor: the
\* diff of filename, against the index with ref as base when cached,
\* against the worktree otherwise
diff_helper(filename, cached, ref) ==
    <<"diff">> \o (IF cached THEN <<"--cached", ref>> ELSE <<>>)
    \o <<"--", IF filename = PathAM THEN "a/m" ELSE "">>

DoDiffFile ==
    \E filenames \in {<<>>, <<PathAM>>}, cached \in BOOLEAN :
        LET text == IF filenames = <<>> THEN <<>>
                    ELSE diff_helper(filenames[1], cached, model.head)
            c == Diff_init(filenames, cached, model, text)
        IN  /\ Dispatch(Result(c, Command_do(c, model),
                               Diff_calls(filenames, cached, model), FALSE), -1, 0)
            /\ UNCHANGED <<merge_head, headmsg>>

DoDiffStagedFile ==
    \E filenames \in {<<>>, <<PathAM>>} :
        LET text == IF filenames = <<>> THEN <<>>
                    ELSE diff_helper(filenames[1], TRUE, model.head)
            c == DiffStaged_init(filenames, model, text)
        IN  /\ Dispatch(Result(c, Command_do(c, model),
                               Diff_calls(filenames, TRUE, model), FALSE), -1, 0)
            /\ UNCHANGED <<merge_head, headmsg>>

NextViews ==
    \/ DoDiffFile
    \/ DoDiffStagedFile
    \/ DoSetDiffText(MaxUndo)
    \/ DoAmendMode(MaxUndo)
    \/ Undo

SpecViews == InitPatches /\ [][NextViews]_vars

----------------------------------------------------------------------------
(* Prompting: a session in which the user runs tools that prompt for a     *)
(* revision or arguments; do() blocks in the prompt until the user answers *)

\* do() of a prompting tool up to the while loop
RunPrompts ==
    /\ last.op # "prompting"
    /\ \E opts \in ToolOpts :
          /\ opts.revprompt \/ opts.argprompt
          /\ ~(opts.needsfile /\ selfile = <<>>)
          /\ environ' = IF opts.needsfile
                        THEN SetEnv(DelEnv(environ, EnvNames), "FILENAME", selfile)
                        ELSE DelEnv(environ, EnvNames)
          /\ tool' = opts
    /\ trace' = <<>>
    /\ ret' = NoReturn
    /\ last' = Last("prompting", RunConfigAction_init("tool", model), FALSE, FALSE, -1)
    /\ snap' = model
    /\ UNCHANGED <<model, undostack, merge_head, headmsg, selfile>>

\* the user submits an empty revision to a tool that wants one
UserRetries ==
    /\ last.op = "prompting"
    /\ Cardinality({i \in 1..Len(trace) : trace[i].ev = "critical"}) < MaxRetries
    /\ \E a \in Answers :
          /\ PromptStep(tool, a, trace).again
          /\ trace' = PromptStep(tool, a, trace).trace
    /\ UNCHANGED <<model, undostack, merge_head, headmsg, snap, last, toolvars>>

\* the user cancels or gives an answer that the loop takes; do() runs on to
\* its return
UserFinal ==
    /\ last.op = "prompting"
    /\ \E a \in Answers :
          LET p == PromptStep(tool, a, trace)
          IN  /\ ~p.again
              /\ \E status \in IF p.ok THEN Statuses ELSE {0} :
                    LET r == IF p.ok
                             THEN RunConfigAction_run(tool, environ, p.rev, p.args,
                                                      p.trace, status)
                             ELSE RunResult(environ, p.trace, NoReturn)
                    IN  /\ environ' = r.environ
                        /\ trace' = r.trace
                        /\ ret' = r.ret
                        /\ last' = Last("do", RunConfigAction_init("tool", model),
                                        FALSE, FALSE, status)
    /\ UNCHANGED <<model, undostack, merge_head, headmsg, snap, selfile, tool>>

\* the selection changes while no prompt is open
SelectsBetweenRuns == last.op # "prompting" /\ SelectionChanges

NextPrompt ==
    \/ RunPrompts
    \/ UserRetries
    \/ UserFinal
    \/ SelectsBetweenRuns

\* the user eventually cancels or gives an answer that the loop takes
SpecPrompt == InitRun /\ [][NextPrompt]_vars /\ WF_vars(UserFinal)

----------------------------------------------------------------------------
(* Undoing: a session that starts from any view, with a message typed or   *)
(* not and a directory set or not, in which undoable commands run and are  *)
(* undone                                                                  *)

\* models a session can be in with nothing on the undo stack: the start, a
\* staged diff shown, or amend mode entered in an earlier session; nothing
\* typed and no directory set, or a message typed and a directory set
StartModels ==
    {[m EXCEPT !.commitmsg = s.msg, !.directory = s.dir] :
        m \in {InitModel,
               Command_do(DiffStaged_init(<<PathAM>>, InitModel, <<"d1">>), InitModel),
               Amending(InitModel, <<"m1">>).model},
        s \in {[msg |-> <<>>, dir |-> <<>>],
               [msg |-> <<"m2">>, dir |-> dirname(PathBT)]}}

InitUndoing ==
    /\ model \in StartModels
    /\ undostack = <<>>
    /\ merge_head = FALSE
    /\ headmsg = <<"m1">>
    /\ trace = <<>>
    /\ snap = model
    /\ last = Last("init", NoCmd, FALSE, FALSE, -1)
    /\ InitTools

NextUndoing ==
    \/ DoAmendMode(MaxUndo)
    \/ DoLoadCommitMessage(MaxUndo)
    \/ DoLoadCommitTemplate(MaxUndo)
    \/ DoLoadPreviousMessage(MaxUndo)
    \/ DoSetDiffText(MaxUndo)
    \/ DoSignOff(MaxUndo)
    \/ Undo
    \/ MergeChanges

SpecUndoing == InitUndoing /\ [][NextUndoing]_vars

----------------------------------------------------------------------------
(* Properties *)

\* the five fields every command's undo is held to
Fields(m) == <<m.diff_text, m.filename, m.mode, m.head, m.commitmsg>>

\* C1: when undo() of an undoable command runs directly after the do() of
\* that command, itself run right after construction, diff_text, filename,
\* mode, head, commitmsg and directory are what they were before do().
C1_UndoRestores ==
    (last.op = "undo" /\ last.imm) =>
        (Fields(model) = Fields(snap) /\ model.directory = snap.directory)

\* an amend entry that took effect from outside amend mode has been undone
C1_Witness ==
    /\ last.op = "undo" /\ last.imm
    /\ last.cmd.name = "AmendMode" /\ last.cmd.amending /\ ~last.cmd.skip
    /\ model.mode # mode_amend
    /\ model.commitmsg # headmsg

\* C2: do() of an amend-entering AmendMode while MERGE_HEAD exists leaves
\* mode, head, diff_text and commitmsg as they were, broadcasts amend(False)
\* and shows the information prompt; the undo() of that command, whenever it
\* runs, changes no field of the model.
C2_RefusedDo ==
    (last.op = "do" /\ last.cmd.name = "AmendMode" /\ last.cmd.amending
                   /\ last.merging) =>
        /\ model.mode = snap.mode /\ model.head = snap.head
        /\ model.diff_text = snap.diff_text /\ model.commitmsg = snap.commitmsg
        /\ trace = <<Ev("amend", -1, FALSE), Ev("information", -1, "Oops! Unmerged")>>

C2_RefusedUndo ==
    (last'.op = "undo" /\ last'.cmd.name = "AmendMode" /\ last'.cmd.skip) =>
        model' = model

C2_AmendGuard == []C2_RefusedDo /\ [][C2_RefusedUndo]_vars

\* a refused amend entry has been undone after the user changed the message
C2_Witness ==
    /\ last.op = "undo" /\ ~last.imm
    /\ last.cmd.name = "AmendMode" /\ last.cmd.skip
    /\ model.commitmsg # <<>>

\* the undo stack as it was when the command now on top was constructed
StackBefore == SubSeq(undostack, 1, Len(undostack) - 1)

\* positions of the amend-entering AmendMode commands of a stack
Entries(stack) ==
    {i \in 1..Len(stack) : stack[i].name = "AmendMode" /\ stack[i].amending}

\* C3: a leave-amend command restores the old_commitmsg of the most recent
\* amend-entering AmendMode command of the undo stack, whatever commands
\* lie above it, and the live commitmsg when the stack holds none.
C3_Recovery ==
    (last.op = "do" /\ last.cmd.name = "AmendMode" /\ ~last.cmd.amending) =>
        LET E == Entries(StackBefore)
        IN  model.commitmsg =
                IF E = {} THEN snap.commitmsg
                ELSE StackBefore[CHOOSE i \in E : \A j \in E : j <= i].old_commitmsg

\* amend mode was left with another command above the entry, and the
\* restored message is not the live one
C3_Witness ==
    /\ last.op = "do" /\ last.cmd.name = "AmendMode" /\ ~last.cmd.amending
    /\ Len(undostack) = 3
    /\ undostack[1].name = "AmendMode" /\ undostack[1].amending
    /\ undostack[2].name = "LoadPreviousMessage"
    /\ model.commitmsg # snap.commitmsg

\* the session after one more AmendMode(amend) was dispatched
AfterAmendMode(amend, w) ==
    LET r == AmendMode_do(AmendMode_init(amend, w.model, w.undostack, headmsg),
                          w.model, merge_head)
    IN  [model |-> r.model, undostack |-> Factory_push(w.undostack, r)]

\* C4: from any state, entering amend mode twice and then leaving it
\* restores the commit message that entering once and leaving restores.
C4_Idempotent ==
    LET w == [model |-> model, undostack |-> undostack]
        once == AfterAmendMode(FALSE, AfterAmendMode(TRUE, w))
        twice == AfterAmendMode(FALSE, AfterAmendMode(TRUE, AfterAmendMode(TRUE, w)))
    IN  twice.model.commitmsg = once.model.commitmsg

Rescans == {i \in 1..Len(trace) : trace[i].ev = "update_file_status"}

LogCmds == {i \in 1..Len(trace) : trace[i].ev = "log_cmd"}

\* C5: after Commit.do() the model is reset (and rescanned) exactly when the
\* commit status is 0; for any other status mode, head, diff_text, filename
\* and commitmsg are as before do() and no rescan was made.
C5_CommitResets ==
    (last.op = "do" /\ last.cmd.name = "Commit") =>
        IF last.status = 0
        THEN /\ model.mode = mode_none /\ model.head = "HEAD"
             /\ model.diff_text = <<>> /\ model.commitmsg = <<>>
             /\ Rescans # {}
        ELSE /\ Fields(model) = Fields(snap)
             /\ Rescans = {}

\* a commit failed in amend mode with a diff shown and a message typed
C5_Witness ==
    /\ last.op = "do" /\ last.cmd.name = "Commit" /\ last.status # 0
    /\ model.mode = mode_index /\ model.head = "HEAD^"
    /\ model.diff_text # <<>> /\ model.commitmsg # <<>>

\* C6: every Commit.do() broadcasts exactly one log_cmd, with the commit
\* status; its text starts with 'Commit: ' for status 0 and with
\* 'Commit failed: ' otherwise.
C6_OneLogCmd ==
    (last.op = "do" /\ last.cmd.name = "Commit") =>
        /\ Cardinality(LogCmds) = 1
        /\ \A i \in LogCmds :
              /\ trace[i].status = last.status
              /\ trace[i].arg[1] =
                     IF last.status = 0 THEN "Commit: " ELSE "Commit failed: "

\* a commit failed with status 128 and was logged
C6_Witness ==
    /\ last.op = "do" /\ last.cmd.name = "Commit" /\ last.status = 128
    /\ \E i \in LogCmds : trace[i].status = 128

\* the shell command was executed, directly or through the console prompt
Executions ==
    {i \in 1..Len(trace) :
        trace[i].ev \in {"utils.run_command", "run_command"}}

\* the last step ran a tool that needs a file while none was selected
NeedsFileUnmet ==
    /\ last.op = "do" /\ last.cmd.name = "RunConfigAction"
    /\ tool.needsfile /\ selfile = <<>>

\* C7 as stated: RunConfigAction.do() for a tool with needsfile, run while no
\* file is selected, does not execute the shell command and leaves FILENAME,
\* REVISION and ARGS exactly as they were before the call.
C7_EnvironUntouched ==
    [][NeedsFileUnmet' => (Executions' = {} /\ environ' = environ)]_vars

\* C7 as amended: it does not execute the shell command, returns None after
\* the information prompt, and FILENAME, REVISION and ARGS are all unset
\* afterwards, whatever they were before.
C7_EnvironCleared ==
    NeedsFileUnmet =>
        /\ Executions = {}
        /\ trace = <<Ev("information", -1, "Please select a file")>>
        /\ ret = NoReturn
        /\ DOMAIN environ \cap EnvNames = {}

\* a tool that needs a file, and prompts for a revision and arguments, was
\* refused for want of a selected file
C7_Witness ==
    /\ NeedsFileUnmet
    /\ tool.revprompt /\ tool.argprompt
    /\ trace # <<>>

\* the calls of the last do() that are ev
Calls(ev) == {i \in 1..Len(trace) : trace[i].ev = ev}

\* the patches handed to git-am, in the order of the calls
Applied == [i \in 1..Cardinality(Calls("git.am")) |->
               trace[CHOOSE k \in Calls("git.am") :
                         Cardinality({j \in Calls("git.am") : j <= k}) = i].arg]

\* how often p occurs in list
Count(list, p) == Cardinality({i \in 1..Len(list) : list[i] = p})

\* C8: the git-am invocations of ApplyPatches are the patches it was given,
\* each as often as given, in lexicographically ascending order of the path,
\* whatever the order they were given in.
C8_SortedOrder ==
    (last.op = "do" /\ last.cmd.name = "ApplyPatches") =>
        /\ Len(Applied) = Len(last.args)
        /\ \A p \in PatchPaths : Count(Applied, p) = Count(last.args, p)
        /\ \A i, j \in 1..Len(Applied) : i < j => ~StrLess(Applied[j], Applied[i])

\* two patches were given in descending order, one path a prefix of the
\* other
C8_Witness ==
    /\ last.op = "do" /\ last.cmd.name = "ApplyPatches"
    /\ Len(last.args) = 2
    /\ StrLess(last.args[2], last.args[1])
    /\ Len(last.args[2]) < Len(last.args[1])
    /\ Applied = <<last.args[2], last.args[1]>>

\* C9: for a batch of n patches and any exit statuses, ApplyPatches.do()
\* calls git-am n times and broadcasts n log_cmd events, each right after
\* its git-am and with its status; after the last of them it sets the diff
\* text, rescans the file status and, last of all, shows the prompt that
\* lists the n basenames.
C9_BestEffort ==
    (last.op = "do" /\ last.cmd.name = "ApplyPatches") =>
        LET n == Len(last.args)
            end == Len(trace)
        IN  /\ Cardinality(Calls("git.am")) = n
            /\ Cardinality(Calls("log_cmd")) = n
            /\ \A i \in Calls("git.am") :
                  /\ i + 1 \in Calls("log_cmd")
                  /\ trace[i + 1].status = trace[i].status
                  /\ i + 1 < end - 1
            /\ model.diff_text # <<>>
            /\ model.diff_text[Len(model.diff_text) - 1].text = "Summary:"
            /\ Calls("update_file_status") = {end - 1}
            /\ Calls("information") = {end}
            /\ trace[end].arg.count = n
            /\ trace[end].arg.names = [i \in 1..n |-> basename(Applied[i])]

\* of two patches the first did not apply and the second did
C9_Witness ==
    /\ last.op = "do" /\ last.cmd.name = "ApplyPatches"
    /\ Len(last.args) = 2
    /\ \E i, j \in Calls("git.am") :
          i < j /\ trace[i].status # 0 /\ trace[j].status = 0
                /\ \A k \in Calls("git.am") : i <= k /\ k <= j

\* C10: for every apply status ApplyDiffSelection.do() broadcasts one
\* log_cmd with the status and output of the apply, then diffs the current
\* filename again (staged diff and mode index when staged, worktree diff and
\* mode worktree otherwise), then rescans the file status once.
C10_AlwaysRescans ==
    (last.op = "do" /\ last.cmd.name = "ApplyDiffSelection") =>
        /\ Len(trace) = 4
        /\ trace[1].ev = "process_diff_selection"
        /\ trace[1].status = last.status
        /\ trace[2].ev = "log_cmd" /\ trace[2].status = last.status
        /\ trace[2].arg = last.args
        /\ trace[3].ev = "diff_helper"
        /\ trace[3].arg.filename = snap.filename
        /\ trace[3].arg.cached = trace[1].arg.cached
        /\ trace[4].ev = "update_file_status"
        /\ model.filename = snap.filename
        /\ model.mode = IF trace[1].arg.cached THEN mode_index ELSE mode_worktree

\* a selection of the staged diff of a file did not apply
C10_Witness ==
    /\ last.op = "do" /\ last.cmd.name = "ApplyDiffSelection"
    /\ last.status # 0
    /\ trace[1].arg.cached
    /\ snap.filename = PathAM /\ snap.mode = mode_index

\* the first newline of text, 0 if there is none
Newline(text) ==
    IF \E i \in 1..Len(text) : text[i] = "\n"
    THEN CHOOSE i \in 1..Len(text) :
             text[i] = "\n" /\ \A j \in 1..(i - 1) : text[j] # "\n"
    ELSE 0

RECURSIVE Lines(_)
\* the lines of text
Lines(text) ==
    IF Newline(text) = 0 THEN <<text>>
    ELSE <<SubSeq(text, 1, Newline(text) - 1)>>
         \o Lines(SubSeq(text, Newline(text) + 1, Len(text)))

\* C11: UntrackedSummary sets mode to untracked and diff_text to a report
\* whose first line is '# 1 untracked file' for one untracked path and
\* '# N untracked files' for N > 1, and in which, for N >= 1, every
\* untracked path has a line of its own that reads '/<path>'.
C11_Report ==
    (last.op = "do" /\ last.cmd.name = "UntrackedSummary") =>
        LET n == Len(last.args)
            lines == Lines(model.diff_text)
        IN  /\ model.mode = mode_untracked
            /\ n = 1 => lines[1] = <<"# ", "1", " untracked file">>
            /\ n > 1 => lines[1] = <<"# ", Decimal(n), " untracked file", "s">>
            /\ \A i \in 1..n :
                  \E k \in 2..Len(lines) : lines[k] = <<"/">> \o last.args[i]

\* text has path in it
Names(text, path) ==
    \E i \in 1..Len(text) :
        /\ i + Len(path) - 1 <= Len(text)
        /\ SubSeq(text, i, i + Len(path) - 1) = path

\* C12: the 'stage' signal, triggered with a list of paths, makes one
\* log_cmd broadcast whose text names every path of the list and one call of
\* stage_paths with the list, the broadcast first.
C12_StageDispatch ==
    (last.op = "do" /\ last.cmd.name = signal_to_command_map["stage"]) =>
        /\ Len(trace) = 2
        /\ trace[1].ev = "log_cmd"
        /\ \A i \in 1..Len(last.args) : Names(trace[1].arg, last.args[i])
        /\ trace[2].ev = "stage_paths"
        /\ trace[2].arg = last.args

\* 'stage' was triggered with two different paths
C12_Witness ==
    /\ last.op = "do" /\ last.cmd.name = "Stage"
    /\ Len(last.args) = 2
    /\ last.args[1] # last.args[2]
    /\ Calls("stage_paths") # {}

\* C13: every do() that runs git (commit, checkout, am, tag, clone,
\* cherry-pick, branch deletion, unstage-all, untrack) broadcasts, after
\* that call and before it returns, a log_cmd with the call's status
\* (where the call's status is on record).
C13_LogsVcsCalls ==
    last.op = "do" =>
        \A i \in 1..Len(trace) :
            trace[i].ev \in {"commit_with_msg", "git.checkout", "git.am", "git.tag",
                              "git.clone", "cherry_pick_list", "delete_branch",
                              "unstage_all", "untrack_paths"} =>
                \E j \in (i + 1)..Len(trace) :
                    /\ trace[j].ev = "log_cmd"
                    /\ trace[i].status # -1 => trace[j].status = trace[i].status

\* C14: every do() of Stage, Unstage, UnstageAll and Untrack broadcasts a
\* log_cmd whose text names the paths the command was given, before it calls
\* the model's stage_paths, unstage_paths, unstage_all or untrack_paths.
C14_LogsBeforeMutation ==
    (last.op = "do"
     /\ last.cmd.name \in {"Stage", "Unstage", "UnstageAll", "Untrack"}) =>
        \E k \in 1..Len(trace) :
            /\ trace[k].ev \in {"stage_paths", "unstage_paths", "unstage_all",
                               "untrack_paths"}
            /\ \E i \in 1..(k - 1) :
                  /\ trace[i].ev = "log_cmd"
                  /\ \A p \in 1..Len(last.args) : Names(trace[i].arg, last.args[p])

\* C15: in every reachable state mode and head agree with how diff_text was
\* produced: with mode = index diff_text is a staged diff against the index
\* with head as base, with mode = worktree it is a worktree diff.
C15_ModeMatchesDiff ==
    /\ model.mode = mode_index =>
          model.diff_text = diff_helper(model.filename, TRUE, model.head)
    /\ model.mode = mode_worktree =>
          model.diff_text = diff_helper(model.filename, FALSE, model.head)

\* C16: every command on the undo stack is undoable; the dispatch of an
\* undoable command puts that command on top of the stack and leaves the
\* commands below as they were, so that the stack holds the executed
\* undoable commands in execution order; the dispatch of a command that is
\* not undoable leaves the stack unchanged.
C16_UndoStack ==
    /\ [](\A i \in 1..Len(undostack) : undostack[i].undoable)
    /\ [][last'.op = "do" =>
            IF last'.cmd.undoable /\ ~last'.raised
            THEN /\ Len(undostack') = Len(undostack) + 1
                 /\ SubSeq(undostack', 1, Len(undostack)) = undostack
                 /\ undostack'[Len(undostack')].name = last'.cmd.name
            ELSE undostack' = undostack]_vars

\* a diff was shown after two undoable commands ran
C16_Witness ==
    /\ last.op = "do" /\ ~last.cmd.undoable
    /\ Len(undostack) = 2
    /\ undostack[1].name = "SetDiffText"
    /\ undostack[2].name = "AmendMode"

\* C17: a do() of an amend-entering AmendMode that is not refused sets mode
\* to amend, head to 'HEAD^' and commitmsg to the message of the most recent
\* commit, broadcasts amend(True) and rescans the file status; a do() of a
\* leave-amend AmendMode sets mode to none, head to 'HEAD' and diff_text to
\* '' and broadcasts amend(False).  In every state mode = amend if and only
\* if head = 'HEAD^'.
C17_AmendTransitions ==
    /\ (last.op = "do" /\ last.cmd.name = "AmendMode" /\ ~last.cmd.skip) =>
          /\ Calls("amend") # {}
          /\ \A i \in Calls("amend") : trace[i].arg = last.cmd.amending
          /\ IF last.cmd.amending
             THEN /\ model.mode = mode_amend
                  /\ model.head = "HEAD^"
                  /\ model.commitmsg = headmsg
                  /\ Rescans # {}
             ELSE /\ model.mode = mode_none
                  /\ model.head = "HEAD"
                  /\ model.diff_text = <<>>
    /\ model.mode = mode_amend <=> model.head = "HEAD^"

\* amend mode was entered over a message of the user's, left and entered again
C17_Witness ==
    /\ last.op = "do" /\ last.cmd.name = "AmendMode" /\ ~last.cmd.skip
    /\ last.cmd.amending
    /\ snap.commitmsg # headmsg
    /\ Len(undostack) = 3
    /\ ~undostack[2].amending

\* the prompt loop so far: after every prompt but the last an empty revision
\* was rejected, and nothing has been executed while it rejects
PromptsSoFar ==
    /\ \A i \in Calls("critical") : i - 1 \in Calls("run_config_action")
    /\ \A i \in Calls("run_config_action") :
          i < Len(trace) /\ Executions = {} => i + 1 \in Calls("critical")

\* C18: a tool with revprompt or argprompt shows its prompt again and again
\* until the user cancels or gives an answer with (if revprompt is set) a
\* revision that is not empty; the shell command is never executed with
\* revprompt set and an empty revision; and do() returns, the user
\* eventually cancelling or giving such an answer.
C18_PromptLoop ==
    /\ [](last.cmd.name = "RunConfigAction" =>
            /\ PromptsSoFar
            /\ last.op = "prompting" =>
                  /\ Executions = {}
                  /\ Cardinality(Calls("run_config_action"))
                        = Cardinality(Calls("critical"))
            /\ last.op = "do" =>
                  /\ Cardinality(Calls("run_config_action"))
                        = Cardinality(Calls("critical")) + 1
                  /\ (Executions # {} /\ tool.revprompt) =>
                        /\ "REVISION" \in DOMAIN environ
                        /\ environ["REVISION"] # <<>>)
    /\ (last.op = "prompting") ~> (last.op = "do")

\* a tool ran after the user had first submitted an empty revision
C18_Witness ==
    /\ last.op = "do" /\ last.cmd.name = "RunConfigAction"
    /\ tool.revprompt
    /\ Calls("critical") # {}
    /\ Executions # {}

\* the last step was a do() of RunConfigAction in which the user cancelled
\* the prompt or answered no to the question
Aborted ==
    /\ last.op = "do" /\ last.cmd.name = "RunConfigAction"
    /\ last.args.cancelled \/ last.args.declined

\* C19: when the user cancels the revision/args prompt or answers no to the
\* confirm question, do() returns without executing the command, without a
\* log_cmd, without setting REVISION or ARGS and without a rescan; the
\* question is asked only of a tool with neither revprompt nor argprompt.
C19_SilentAbort ==
    /\ Aborted =>
          /\ Executions = {}
          /\ LogCmds = {}
          /\ "REVISION" \notin DOMAIN environ
          /\ "ARGS" \notin DOMAIN environ
          /\ Calls("update_status") = {}
          /\ ret = NoReturn
    /\ (last.cmd.name = "RunConfigAction" /\ Calls("question") # {}) =>
          ~tool.revprompt /\ ~tool.argprompt

\* the user answered no to the question of a tool that would rescan, or
\* cancelled its prompt after an empty revision had been rejected
C19_Witness ==
    /\ Aborted
    /\ \/ last.args.declined
       \/ Calls("critical") # {}
    /\ ~tool.norescan

\* the last step was a do() of RunConfigAction that was not refused for want
\* of a file and not aborted by the user
Ran ==
    /\ last.op = "do" /\ last.cmd.name = "RunConfigAction"
    /\ ~NeedsFileUnmet
    /\ ~Aborted

\* C20: a do() of RunConfigAction that is not aborted broadcasts
\* log_cmd(0, 'running: ...'), then executes the command once (by
\* utils.run_command when noconsole, by the run_command prompt otherwise),
\* then broadcasts one log_cmd with the exit status, then rescans the status
\* if and only if norescan is not set, and returns the exit status.
C20_RunOrder ==
    Ran =>
        \E k \in 1..Len(trace) :
            /\ LogCmds = {k, k + 2}
            /\ trace[k].status = 0 /\ trace[k].arg = "running: "
            /\ Executions = {k + 1}
            /\ trace[k + 1].ev = IF tool.noconsole THEN "utils.run_command"
                                 ELSE "run_command"
            /\ trace[k + 1].status = last.status
            /\ trace[k + 2].status = last.status
            /\ Calls("update_status") = IF tool.norescan THEN {} ELSE {k + 3}
            /\ Len(trace) = IF tool.norescan THEN k + 2 ELSE k + 3
            /\ ret = last.status

\* a tool with norescan ran in the console, after a prompt, and failed
C20_Witness ==
    /\ Ran
    /\ tool.norescan /\ ~tool.noconsole
    /\ last.status # 0
    /\ Calls("run_config_action") # {}

\* C21: Tag.do() broadcasts one log_cmd, with the status of git tag; it
\* rescans the status if and only if that status is 0; and when a message
\* was given, the file it wrote the message to has been removed by the time
\* of the broadcast, whatever the status.
C21_TagCleansUp ==
    (last.op = "do" /\ last.cmd.name = "Tag") =>
        /\ Cardinality(LogCmds) = 1
        /\ \A i \in LogCmds : trace[i].status = last.status
        /\ \A i \in Calls("git.tag") : trace[i].status = last.status
        /\ Calls("update_status") # {} <=> last.status = 0
        /\ Cardinality(Calls("update_status")) <= 1
        /\ last.args # <<>> =>
              /\ Cardinality(Calls("utils.write")) = 1
              /\ Cardinality(Calls("os.unlink")) = 1
              /\ \A w \in Calls("utils.write"), t \in Calls("git.tag"),
                    u \in Calls("os.unlink"), l \in LogCmds :
                        w < t /\ t < u /\ u < l
        /\ last.args = <<>> => Calls("utils.write") = {}

\* a tag with a message was refused by git
C21_Witness ==
    /\ last.op = "do" /\ last.cmd.name = "Tag"
    /\ last.args # <<>>
    /\ last.status # 0
    /\ Calls("os.unlink") # {}

\* C22: Checkout.do() broadcasts one log_cmd with the status of git
\* checkout and then rescans once, by update_status when checkout_branch is
\* true and by update_file_status otherwise, whatever the status; diff_text,
\* filename, mode and head are what they were before do().
C22_CheckoutRescans ==
    (last.op = "do" /\ last.cmd.name = "Checkout") =>
        /\ Len(trace) = 3
        /\ trace[1].ev = "git.checkout" /\ trace[1].status = last.status
        /\ trace[2].ev = "log_cmd" /\ trace[2].status = last.status
        /\ trace[3].ev = IF last.args.checkout_branch THEN "update_status"
                         ELSE "update_file_status"
        /\ model.diff_text = snap.diff_text
        /\ model.filename = snap.filename
        /\ model.mode = snap.mode
        /\ model.head = snap.head

\* a checkout with checkout_branch set failed while a diff was shown
C22_Witness ==
    /\ last.op = "do" /\ last.cmd.name = "Checkout"
    /\ last.args.checkout_branch
    /\ last.status # 0
    /\ snap.diff_text # <<>>
    /\ snap.mode = mode_worktree

\* C26: CheckoutBranch(branch), constructed with checkout_branch true (its
\* default), rescans after the checkout by update_status, as
\* Checkout(argv, checkout_branch=True) does, not by update_file_status.
C26_BranchRescan ==
    (last.op = "do" /\ last.cmd.name = "CheckoutBranch"
     /\ last.args.checkout_branch) =>
        /\ Calls("update_status") # {}
        /\ Calls("update_file_status") = {}

\* C23: LoadCommitMessage.do() with an empty path or a path that is no file,
\* and LoadCommitTemplate.do() with no commit.template configured, raise the
\* usage error and leave commitmsg, directory, diff_text, filename, mode and
\* head what they were before do().
C23_ErrorsMutateNothing ==
    (last.op = "do"
     /\ last.cmd.name \in {"LoadCommitMessage", "LoadCommitTemplate"}
     /\ (last.args = None \/ last.args = <<>> \/ ~isfile(last.args))) =>
        /\ last.raised
        /\ Fields(model) = Fields(snap)
        /\ model.directory = snap.directory

\* a message was to be loaded from a path that is no file, with a message
\* typed and a directory other than the path's set
C23_Witness ==
    /\ last.op = "do" /\ last.cmd.name = "LoadCommitMessage"
    /\ last.args = PathAX
    /\ last.raised
    /\ snap.commitmsg # <<>>
    /\ snap.directory # dirname(PathAX)

\* an undoable command to dispatch: its class, its arguments, what it reads
\* (the file's content, the earlier message) and whether a merge is going on
Undoable(name, amend, merging, path, msg, text) ==
    [name |-> name, amend |-> amend, merging |-> merging, path |-> path,
     msg |-> msg, text |-> text]

UndoableCommands ==
    {Undoable("AmendMode", a, g, None, <<>>, <<>>) : a \in BOOLEAN, g \in BOOLEAN}
    \cup {Undoable("LoadCommitMessage", FALSE, FALSE, p, c, <<>>) :
             p \in {<<>>, PathAM, PathAX}, c \in Msgs}
    \cup {Undoable("LoadCommitTemplate", FALSE, FALSE, p, c, <<>>) :
             p \in {None, PathBT}, c \in Msgs}
    \cup {Undoable("LoadPreviousMessage", FALSE, FALSE, None, c, <<>>) : c \in Msgs}
    \cup {Undoable("SetDiffText", FALSE, FALSE, None, <<>>, t) : t \in Texts}
    \cup {Undoable("SignOff", FALSE, FALSE, None, <<>>, <<>>)}

\* the model and the undo stack after the factory constructed and ran d
AfterDo(d, w) ==
    LET r == CASE d.name = "AmendMode" ->
                    AmendMode_do(AmendMode_init(d.amend, w.model, w.undostack, headmsg),
                                 w.model, d.merging)
               [] d.name = "LoadCommitMessage" ->
                    LoadCommitMessage_do(LoadCommitMessage_init(d.path, w.model),
                                         w.model, d.msg)
               [] d.name = "LoadCommitTemplate" ->
                    LoadCommitTemplate_do(LoadCommitTemplate_init(d.path, w.model),
                                          w.model, d.msg)
               [] d.name = "LoadPreviousMessage" ->
                    LoadPreviousMessage_do(LoadPreviousMessage_init(d.msg, w.model),
                                           w.model)
               [] d.name = "SetDiffText" ->
                    Result(SetDiffText_init(d.text, w.model),
                           Command_do(SetDiffText_init(d.text, w.model), w.model),
                           <<>>, FALSE)
               [] d.name = "SignOff" ->
                    SignOff_do(SignOff_init(w.model), w.model)
    IN  [model |-> r.model, undostack |-> Factory_push(w.undostack, r)]

RECURSIVE AfterAll(_, _)
\* the commands of seq dispatched one after the other
AfterAll(seq, w) ==
    IF seq = <<>> THEN w ELSE AfterAll(Tail(seq), AfterDo(Head(seq), w))

RECURSIVE UndoAll(_)
\* undo, as often as there is a command on the stack
UndoAll(w) ==
    IF w.undostack = <<>> THEN w
    ELSE UndoAll([model |-> Cmd_undo(w.undostack[Len(w.undostack)], w.model).model,
                  undostack |-> SubSeq(w.undostack, 1, Len(w.undostack) - 1)])

\* C24: from any state with an empty undo stack, dispatching any sequence of
\* undoable commands and then undoing all of them, the latest first, leaves
\* diff_text, filename, mode, head, commitmsg and directory what they were.
C24_LifoUndo ==
    undostack = <<>> =>
        \A n \in 0..MaxUndo :
        \A seq \in [1..n -> UndoableCommands] :
            LET w == UndoAll(AfterAll(seq, [model |-> model, undostack |-> <<>>]))
            IN  /\ Fields(w.model) = Fields(model)
                /\ w.model.directory = model.directory

\* the session has undone the earlier of two commands, from amend mode with a
\* message typed
C24_Witness ==
    /\ undostack = <<>>
    /\ last.op = "undo" /\ ~last.imm
    /\ model.mode = mode_amend
    /\ model.commitmsg = <<"m2">>


\* C25: a leave-amend command restores the old_commitmsg of the most recent
\* amend-entering command of the undo stack whose do() took effect, and the
\* live commitmsg when there is none; an entry refused by the merge guard
\* (skip set) never supplies the restored message.
C25_RefusedIgnored ==
    (last.op = "do" /\ last.cmd.name = "AmendMode" /\ ~last.cmd.amending) =>
        LET E == {i \in Entries(StackBefore) : ~StackBefore[i].skip}
        IN  model.commitmsg =
                IF E = {} THEN snap.commitmsg
                ELSE StackBefore[CHOOSE i \in E : \A j \in E : j <= i].old_commitmsg

====
